---------------------------- MODULE Spec2Model ----------------------------
(***************************************************************************)
(* A model of easyad.py: the result normaliser (decode_ldap_results), the  *)
(* timestamp codec, the connection wrapper (ADConnection) and the          *)
(* directory client (EasyAD), run against a scripted directory library.    *)
(*                                                                         *)
(* Text is a sequence of code points, a byte string a sequence of numbers  *)
(* in 0..255.  Python values that can be of several types carry a tag:     *)
(*   [k |-> "str", s |-> <<...>>]    a str                                 *)
(*   [k |-> "bytes", s |-> <<...>>]  a bytes                               *)
(*   [t |-> "scalar", s |-> v]       an attribute collapsed to one value   *)
(*   [t |-> "list", l |-> <<...>>]   an attribute that is a list of values *)
(*   [t |-> "int", i |-> n], [t |-> "bool", b |-> x], [t |-> "none"],      *)
(*   [t |-> "datetime", day |-> d, sec |-> n]   a datetime: days since     *)
(*       1601-01-01 and seconds of that day (no sub-second part)           *)
(*   [t |-> "timestr", day |-> d, sec |-> n]    its strftime("%x %X") text *)
(***************************************************************************)
EXTENDS Integers, Sequences, FiniteSets, TLC

VARIABLES
    config,   \* the configuration dictionary handed to EasyAD(config)
    server,   \* the directory library's script: directory content and faults
    client,   \* outcome of EasyAD.__init__: "none", "ok" or the error raised
    conns,    \* one record per ADConnection the last operation constructed
    call,     \* the last public operation invoked, with its arguments
    out       \* what that operation returned or raised

vars == <<config, server, client, conns, call, out>>

---------------------------------------------------------------------------
(* Python values *)

Str(s) == [k |-> "str", s |-> s]
Bytes(s) == [k |-> "bytes", s |-> s]
None == [t |-> "none"]
Scalar(v) == [t |-> "scalar", s |-> v]
List(l) == [t |-> "list", l |-> l]
PyInt(n) == [t |-> "int", i |-> n]
Bool(b) == [t |-> "bool", b |-> b]
DateTime(d, n) == [t |-> "datetime", day |-> d, sec |-> n]
TimeStr(d, n) == [t |-> "timestr", day |-> d, sec |-> n]

Return(v) == [kind |-> "return", value |-> v]
Raise(e) == [kind |-> "raise", exc |-> e]
Raised(r) == r.kind = "raise"

---------------------------------------------------------------------------
(* str.lower(), bytes.lower() and the order of str / bytes values *)

\* str.lower() on one code point below 256: A-Z and the Latin-1 capitals.
LowerChar(c) ==
    IF c \in 65..90 \/ (c \in 192..222 /\ c # 215) THEN c + 32 ELSE c

\* bytes.lower() on one byte: ASCII only.
LowerByte(c) == IF c \in 65..90 THEN c + 32 ELSE c

LowerStr(s) == [i \in 1..Len(s) |-> LowerChar(s[i])]

\* v.lower() for a str or a bytes value v.
Lower(v) ==
    IF v.k = "str" THEN Str(LowerStr(v.s))
    ELSE Bytes([i \in 1..Len(v.s) |-> LowerByte(v.s[i])])

\* a < b on two str (or two bytes): lexicographic on the code points.
RECURSIVE LexLess(_, _)
LexLess(a, b) ==
    IF b = <<>> THEN FALSE
    ELSE IF a = <<>> THEN TRUE
    ELSE IF a[1] # b[1] THEN a[1] < b[1]
    ELSE LexLess(Tail(a), Tail(b))

\* s.startswith(p)
StartsWith(s, p) == Len(s) >= Len(p) /\ SubSeq(s, 1, Len(p)) = p

\* p in s (substring)
Contains(s, p) ==
    \E i \in 1..(Len(s) - Len(p) + 1) : SubSeq(s, i, i + Len(p) - 1) = p

---------------------------------------------------------------------------
(* bytes.decode("UTF-8") and b64encode *)

IsCont(b) == b \in 128..191

\* Number of bytes of the well-formed UTF-8 sequence that starts b, 0 if none.
Utf8Len(b) ==
    IF b[1] < 128 THEN 1
    ELSE IF b[1] \in 194..223 /\ Len(b) >= 2 /\ IsCont(b[2]) THEN 2
    ELSE IF /\ b[1] \in 224..239 /\ Len(b) >= 3 /\ IsCont(b[2]) /\ IsCont(b[3])
            /\ (b[1] = 224 => b[2] >= 160)
            /\ (b[1] = 237 => b[2] <= 159) THEN 3
    ELSE IF /\ b[1] \in 240..244 /\ Len(b) >= 4
            /\ IsCont(b[2]) /\ IsCont(b[3]) /\ IsCont(b[4])
            /\ (b[1] = 240 => b[2] >= 144)
            /\ (b[1] = 244 => b[2] <= 143) THEN 4
    ELSE 0

Utf8Point(b, n) ==
    CASE n = 1 -> b[1]
      [] n = 2 -> (b[1] - 192) * 64 + (b[2] - 128)
      [] n = 3 -> (b[1] - 224) * 4096 + (b[2] - 128) * 64 + (b[3] - 128)
      [] n = 4 -> (b[1] - 240) * 262144 + (b[2] - 128) * 4096
                    + (b[3] - 128) * 64 + (b[4] - 128)

\* b.decode("UTF-8"): [ok |-> TRUE, s |-> the text], or ok = FALSE where
\* Python raises UnicodeDecodeError (a ValueError).
RECURSIVE Utf8Decode(_)
Utf8Decode(b) ==
    IF b = <<>> THEN [ok |-> TRUE, s |-> <<>>]
    ELSE LET n == Utf8Len(b) IN
         IF n = 0 THEN [ok |-> FALSE, s |-> <<>>]
         ELSE LET r == Utf8Decode(SubSeq(b, n + 1, Len(b))) IN
              [ok |-> r.ok, s |-> <<Utf8Point(b, n)>> \o r.s]

\* The base64 alphabet: A-Z a-z 0-9 + /
B64Char(i) ==
    IF i < 26 THEN 65 + i
    ELSE IF i < 52 THEN 97 + (i - 26)
    ELSE IF i < 62 THEN 48 + (i - 52)
    ELSE IF i = 62 THEN 43 ELSE 47

\* b64encode(b), as the ASCII text of the encoding ('=' is 61).
RECURSIVE B64Encode(_)
B64Encode(b) ==
    IF b = <<>> THEN <<>>
    ELSE IF Len(b) = 1 THEN
        <<B64Char(b[1] \div 4), B64Char((b[1] % 4) * 16), 61, 61>>
    ELSE IF Len(b) = 2 THEN
        <<B64Char(b[1] \div 4), B64Char((b[1] % 4) * 16 + b[2] \div 16),
          B64Char((b[2] % 16) * 4), 61>>
    ELSE
        <<B64Char(b[1] \div 4), B64Char((b[1] % 4) * 16 + b[2] \div 16),
          B64Char((b[2] % 16) * 4 + b[3] \div 64), B64Char(b[3] % 64)>>
        \o B64Encode(SubSeq(b, 4, Len(b)))

---------------------------------------------------------------------------
(* decode_ldap_results *)

\* An entry of a raw search result is a pair (dn, entry): entry is a dict of
\* attribute name -> list of bytes, or (a referral) a list of URLs.
RawDict(dn, d) == [dn |-> Str(dn), entry |-> [t |-> "dict", d |-> d]]
RawReferral(urls) == [dn |-> None, entry |-> [t |-> "reflist", urls |-> urls]]

IsDict(entry) == entry.t = "dict"

\* Lines 106-110: one value of one attribute.
DecodeValue(v, json_safe) ==
    LET r == Utf8Decode(v.s) IN
    IF r.ok THEN Str(r.s)
    ELSE IF json_safe THEN Str(B64Encode(v.s))
    ELSE v

\* A variant that collapses every attribute to its first value.
DecodeAttribute_AlwaysFirst(values, json_safe) ==
    LET decoded == [i \in 1..Len(values) |-> DecodeValue(values[i], json_safe)] IN
    IF Len(decoded) >= 1 THEN Scalar(decoded[1]) ELSE List(decoded)

\* Lines 105-112: one attribute of one object.
DecodeAttribute(values, json_safe) ==
    LET decoded == [i \in 1..Len(values) |-> DecodeValue(values[i], json_safe)] IN
    IF Len(decoded) = 1 THEN Scalar(decoded[1]) ELSE List(decoded)

\* A variant that keeps every entry, a referral as an object of no attribute.
KeepDicts_All(results) ==
    [i \in 1..Len(results) |->
        IF IsDict(results[i].entry) THEN results[i].entry.d ELSE <<>>]

\* Line 101: keep the entries whose second component is a dict.
KeepDicts(results) ==
    LET kept == SelectSeq(results, LAMBDA r : IsDict(r.entry)) IN
    [i \in 1..Len(kept) |-> kept[i].entry.d]

decode_ldap_results(results, json_safe) ==
    LET objs == KeepDicts(results) IN
    [i \in 1..Len(objs) |->
        [a \in DOMAIN objs[i] |-> DecodeAttribute(objs[i][a], json_safe)]]

---------------------------------------------------------------------------
(* sorted(x, key=lambda dn: dn.lower()) *)

\* Python's sort is stable: x goes before the first element whose key is
\* greater than x's key.
RECURSIVE InsertByKey(_, _)
InsertByKey(sorted, x) ==
    IF sorted = <<>> THEN <<x>>
    ELSE IF LexLess(Lower(x).s, Lower(Head(sorted)).s) THEN <<x>> \o sorted
    ELSE <<Head(sorted)>> \o InsertByKey(Tail(sorted), x)

RECURSIVE SortByLower(_)
SortByLower(l) ==
    IF l = <<>> THEN <<>>
    ELSE InsertByKey(SortByLower(SubSeq(l, 1, Len(l) - 1)), l[Len(l)])

\* What iterating a decoded attribute yields: the elements of a list, the
\* characters of a str; a bytes yields ints, which have no lower().
sorted_lower(x) ==
    IF x.t = "list" THEN
        IF Len(x.l) >= 2 /\ \E i, j \in 1..Len(x.l) : x.l[i].k # x.l[j].k
        THEN Raise("TypeError")
        ELSE Return(List(SortByLower(x.l)))
    ELSE IF x.s.k = "str" THEN
        Return(List(SortByLower([i \in 1..Len(x.s.s) |-> Str(<<x.s.s[i]>>)])))
    ELSE IF x.s.s = <<>> THEN Return(List(<<>>))
    ELSE Raise("AttributeError")

---------------------------------------------------------------------------
(* int(), convert_ad_timestamp, _get_last_logon *)

IsSpace(c) == c \in 9..13 \/ c = 32
IsDigit(c) == c \in 48..57

RECURSIVE LStrip(_)
LStrip(s) == IF s # <<>> /\ IsSpace(s[1]) THEN LStrip(Tail(s)) ELSE s

RECURSIVE RStrip(_)
RStrip(s) ==
    IF s # <<>> /\ IsSpace(s[Len(s)]) THEN RStrip(SubSeq(s, 1, Len(s) - 1)) ELSE s

\* The digits of a literal, a single '_' (95) allowed between two digits.
IsLiteralBody(s) ==
    /\ s # <<>>
    /\ \A i \in 1..Len(s) : IsDigit(s[i]) \/ s[i] = 95
    /\ s[1] # 95 /\ s[Len(s)] # 95
    /\ \A i \in 1..(Len(s) - 1) : ~(s[i] = 95 /\ s[i + 1] = 95)

RECURSIVE DigitsValue(_, _)
DigitsValue(s, acc) ==
    IF s = <<>> THEN acc
    ELSE IF s[1] = 95 THEN DigitsValue(Tail(s), acc)
    ELSE DigitsValue(Tail(s), 10 * acc + (s[1] - 48))

\* The value of a literal without its sign.
LiteralValue(body, negative) ==
    IF ~IsLiteralBody(body) THEN Raise("ValueError")
    ELSE IF negative THEN Return(0 - DigitsValue(body, 0))
    ELSE Return(DigitsValue(body, 0))

\* A literal may start with one '+' (43) or '-' (45).
SignedLiteral(t) ==
    IF t # <<>> /\ t[1] \in {43, 45} THEN LiteralValue(Tail(t), t[1] = 45)
    ELSE LiteralValue(t, FALSE)

\* int(s) for a str (or ASCII bytes) s, base 10.
ParseInt(s) == SignedLiteral(RStrip(LStrip(s)))

\* int(x) for a decoded attribute x.
py_int(x) == IF x.t = "list" THEN Raise("TypeError") ELSE ParseInt(x.s.s)

TicksPerSecond == 10000000
SecondsPerDay == 86400
\* datetime.min is 0001-01-01: 1600 years before the epoch of 1601-01-01.
DaysBeforeEpoch == 584388
\* datetime.max is 9999-12-31: the days from 1601-01-01 to 10000-01-01.
DaysAfterEpoch == 3067671

\* The quotient rounded towards zero, and rounded down.
TruncDiv(a, b) == IF a >= 0 THEN a \div b ELSE 0 - ((0 - a) \div b)
FloorDiv(a, b) == IF a >= 0 THEN a \div b ELSE 0 - ((b - 1 - a) \div b)

\* Line 56: epoch_start + timedelta(...), and line 58-59.
DateAt(day, sec, json_safe) ==
    IF day < 0 - DaysBeforeEpoch \/ day >= DaysAfterEpoch THEN Raise("OverflowError")
    ELSE IF json_safe THEN Return(TimeStr(day, sec))
    ELSE Return(DateTime(day, sec))

\* The day and the second of the day, secs seconds after the epoch.
DateOfSeconds(secs, json_safe) ==
    DateAt(FloorDiv(secs, SecondsPerDay),
           secs - FloorDiv(secs, SecondsPerDay) * SecondsPerDay, json_safe)

\* Lines 52-59, with n what int(timestamp) did.
DateOfTicks(n, json_safe) ==
    IF Raised(n) THEN n
    ELSE IF n.value = 0 THEN Return(None)
    ELSE DateOfSeconds(TruncDiv(n.value, TicksPerSecond), json_safe)

convert_ad_timestamp(timestamp, json_safe) == DateOfTicks(py_int(timestamp), json_safe)

LastLogonWindowDays == 14
\* "<= 14 days"
LE14Days == <<60, 61, 32, 49, 52, 32, 100, 97, 121, 115>>

\* Lines 77-78: (datetime.now() - timestamp).days, now and t as [day, sec].
DaysSince(t, now) ==
    IF now.sec >= t.sec THEN now.day - t.day ELSE now.day - t.day - 1

\* Lines 75-87, with t what convert_ad_timestamp did; line 84 formats the
\* time and drops the text.
LastLogonOf(t, now) ==
    IF Raised(t) THEN t
    ELSE IF t.value = None THEN Return(PyInt(0 - 1))
    ELSE IF DaysSince(t.value, now) <= LastLogonWindowDays THEN Return(Str(LE14Days))
    ELSE t

\* now is datetime.now() as [day, sec].
_get_last_logon(timestamp, json_safe, now) ==
    LastLogonOf(convert_ad_timestamp(timestamp, FALSE), now)

---------------------------------------------------------------------------
(* Python dictionaries and truth values *)

Dict(d) == [t |-> "dict", d |-> d]
Has(d, key) == key \in DOMAIN d
SetKey(d, key, v) == (key :> v) @@ d

\* bool(v)
Truthy(v) ==
    IF "k" \in DOMAIN v THEN v.s # <<>>
    ELSE CASE v.t = "none" -> FALSE
           [] v.t = "bool" -> v.b
           [] v.t = "int" -> v.i # 0
           [] OTHER -> TRUE

---------------------------------------------------------------------------
(* ldap.filter.escape_filter_chars and the search filters *)

EscapeChar(c) ==
    CASE c = 92 -> <<92, 53, 99>>      \* \  ->  \5c
      [] c = 42 -> <<92, 50, 97>>      \* *  ->  \2a
      [] c = 40 -> <<92, 50, 56>>      \* (  ->  \28
      [] c = 41 -> <<92, 50, 57>>      \* )  ->  \29
      [] c = 0  -> <<92, 48, 48>>      \* NUL -> \00
      [] OTHER -> <<c>>

RECURSIVE escape_filter_chars(_)
escape_filter_chars(s) ==
    IF s = <<>> THEN <<>> ELSE EscapeChar(s[1]) \o escape_filter_chars(Tail(s))

\* The four filters the client builds; value is the escaped assertion value.
\* (&(objectClass=user)(|(userPrincipalName=v)(sAMAccountName=v)(mail=v)(distinguishedName=v)))
UserFilter(user_string) ==
    [kind |-> "user", value |-> escape_filter_chars(user_string)]
\* (&(objectClass=Group)(|(cn=v)(distinguishedName=v)))
GroupFilter(group_string) ==
    [kind |-> "group", value |-> escape_filter_chars(group_string)]
\* (member:1.2.840.113556.1.4.1941:=v)
MemberChainFilter(user_dn) ==
    [kind |-> "member_chain", value |-> escape_filter_chars(user_dn)]
\* (&(objectClass=user)(memberof:1.2.840.113556.1.4.1941:=v))
MemberOfChainFilter(group_dn) ==
    [kind |-> "memberof_chain", value |-> escape_filter_chars(group_dn)]

---------------------------------------------------------------------------
(* The directory library and the server behind it (python-ldap).          *)
(* server = [root, objects, accounts, fault, now]:                         *)
(*   root      the DN of the domain root                                   *)
(*   objects   the directory's objects in the order a search lists them:   *)
(*             [cls |-> "user" | "group", dn, attrs] or, for a referral    *)
(*             the root hands out, [cls |-> "referral", urls]              *)
(*   accounts  the <<bind name, password>> pairs the server accepts        *)
(*   fault     [conn |-> n, at |-> "initialize" | "bind" | "search"]: the  *)
(*             n-th connection of an operation fails there; at = "none"    *)
(*             for no fault                                                *)
(*   now       the clock, [day, sec]                                       *)
(***************************************************************************)

HexVal(c) ==
    IF c \in 48..57 THEN c - 48
    ELSE IF c \in 97..102 THEN c - 87
    ELSE IF c \in 65..70 THEN c - 55
    ELSE 0 - 1

\* The server's reading of an assertion value: \XX is the character XX.
RECURSIVE Unescape(_)
Unescape(s) ==
    IF s = <<>> THEN <<>>
    ELSE IF s[1] = 92 /\ Len(s) >= 3 /\ HexVal(s[2]) >= 0 /\ HexVal(s[3]) >= 0
         THEN <<16 * HexVal(s[2]) + HexVal(s[3])>> \o Unescape(SubSeq(s, 4, Len(s)))
    ELSE <<s[1]>> \o Unescape(Tail(s))

\* caseIgnoreMatch, the matching rule of the attributes the filters name.
CaseIgnoreEq(a, b) == LowerStr(a) = LowerStr(b)

\* dn is base or lies below it.
UnderBase(dn, base) ==
    \/ CaseIgnoreEq(dn, base)
    \/ /\ Len(dn) > Len(base) + 1
       /\ dn[Len(dn) - Len(base)] = 44
       /\ CaseIgnoreEq(SubSeq(dn, Len(dn) - Len(base) + 1, Len(dn)), base)

Entries(srv) == SelectSeq(srv.objects, LAMBDA o : o.cls # "referral")

\* Some value of attribute a of object o equals text v.
AttrHas(o, a, v) ==
    /\ a \in DOMAIN o.attrs
    /\ \E i \in 1..Len(o.attrs[a]) : CaseIgnoreEq(Utf8Decode(o.attrs[a][i].s).s, v)

\* The groups (DNs, lower case) an object with DN dn belongs to, through
\* any number of nestings: LDAP_MATCHING_RULE_IN_CHAIN.
DirectGroups(srv, dn) ==
    LET e == Entries(srv)
        mine == { i \in 1..Len(e) : /\ CaseIgnoreEq(e[i].dn, dn)
                                    /\ "memberOf" \in DOMAIN e[i].attrs }
    IN  UNION { { LowerStr(Utf8Decode(e[i].attrs["memberOf"][j].s).s) :
                    j \in 1..Len(e[i].attrs["memberOf"]) } : i \in mine }

RECURSIVE GroupClosure(_, _, _)
\* groups grown to more; more is groups and the groups of its members.
Grow(srv, groups, more, fuel) ==
    IF fuel = 0 \/ more = groups THEN groups
    ELSE GroupClosure(srv, more, fuel - 1)

GroupClosure(srv, groups, fuel) ==
    Grow(srv, groups, groups \cup UNION { DirectGroups(srv, g) : g \in groups }, fuel)

ChainGroups(srv, dn) ==
    GroupClosure(srv, DirectGroups(srv, dn), Len(srv.objects))

\* Object o satisfies the filter whose assertion value reads v.
MatchesValue(srv, o, kind, v) ==
    CASE kind = "user" ->
            /\ o.cls = "user"
            /\ \E a \in {"userPrincipalName", "sAMAccountName", "mail",
                         "distinguishedName"} : AttrHas(o, a, v)
      [] kind = "group" ->
            /\ o.cls = "group"
            /\ \E a \in {"cn", "distinguishedName"} : AttrHas(o, a, v)
      [] kind = "member_chain" ->
            /\ o.cls = "group"
            /\ LowerStr(o.dn) \in ChainGroups(srv, v)
      [] kind = "memberof_chain" ->
            /\ o.cls = "user"
            /\ LowerStr(v) \in ChainGroups(srv, o.dn)

Matches(srv, o, filter) == MatchesValue(srv, o, filter.kind, Unescape(filter.value))

\* attrlist: the names asked for; an empty list asks for every attribute.
\* Attribute names match without regard to case: the default list asks for
\* "LastLogonTimestamp" and the directory names it lastLogonTimestamp.
Requested(name, attrlist) ==
    \/ attrlist = {}
    \/ name \in attrlist
    \/ name = "lastLogonTimestamp" /\ "LastLogonTimestamp" \in attrlist

BaseExists(srv, base) ==
    \/ CaseIgnoreEq(base, srv.root)
    \/ \E i \in 1..Len(Entries(srv)) : CaseIgnoreEq(Entries(srv)[i].dn, base)

\* What search_s(base, SCOPE_SUBTREE, filter, attrlist) hands back when the
\* server answers: one pair per matching object below base, and the root's
\* referrals when the search starts at the root.
SearchHits(srv, base, filter) ==
    SelectSeq(srv.objects, LAMBDA o :
        IF o.cls = "referral" THEN CaseIgnoreEq(base, srv.root)
        ELSE UnderBase(o.dn, base) /\ Matches(srv, o, filter))

\* The pair handed back for one object found.
RawOf(hit, attrlist) ==
    IF hit.cls = "referral" THEN RawReferral(hit.urls)
    ELSE RawDict(hit.dn, [a \in {n \in DOMAIN hit.attrs : Requested(n, attrlist)}
                            |-> hit.attrs[a]])

RawsOf(hits, attrlist) == [i \in 1..Len(hits) |-> RawOf(hits[i], attrlist)]

SearchResults(srv, base, filter, attrlist) ==
    RawsOf(SearchHits(srv, base, filter), attrlist)

\* The n-th connection of the operation fails at this step.
FaultAt(srv, n, where) == srv.fault.at = where /\ srv.fault.conn = n

---------------------------------------------------------------------------
(* ADConnection.  An operation threads cs, the list of the connections it  *)
(* has constructed so far, each [url, protocol_version, referrals,         *)
(* cacertfile, tls_demand, events]; a step returns [out, conns].           *)

IsNone(v) == "t" \in DOMAIN v /\ v.t = "none"
IsStr(v) == "k" \in DOMAIN v /\ v.k = "str"
IsDictValue(v) == "t" \in DOMAIN v /\ v.t = "dict"

Step(o, cs) == [out |-> o, conns |-> cs]

\* An event on the connection in use, the last one constructed.
AddEvent(cs, e) == [cs EXCEPT ![Len(cs)].events = Append(@, e)]

\* "ldap://"
LdapScheme == <<108, 100, 97, 112, 58, 47, 47>>

\* Lines 134-137.
TlsDemand(cfg) ==
    IF Has(cfg, "AD_REQUIRE_TLS") /\ ~Truthy(cfg["AD_REQUIRE_TLS"]) THEN 0 ELSE 1

\* Lines 132-133.
CaCertFile(cfg) ==
    IF Has(cfg, "AD_CA_CERT_FILE") /\ Truthy(cfg["AD_CA_CERT_FILE"])
    THEN cfg["AD_CA_CERT_FILE"] ELSE None

\* ADConnection.__init__
ADConnection(cfg, srv, cs) ==
    IF ~Has(cfg, "AD_SERVER") THEN Step(Raise("KeyError"), cs)
    ELSE IF FaultAt(srv, Len(cs) + 1, "initialize") THEN Step(Raise("LDAPError"), cs)
    ELSE Step(Return(None),
              Append(cs, [url |-> LdapScheme \o cfg["AD_SERVER"].s,
                          protocol_version |-> 3,
                          referrals |-> 0,
                          cacertfile |-> CaCertFile(cfg),
                          tls_demand |-> TlsDemand(cfg),
                          events |-> <<>>]))

\* s.split("\\")[-1]: what follows the last backslash (92).
RECURSIVE AfterLastBackslash(_)
AfterLastBackslash(s) ==
    IF \E i \in 1..Len(s) : s[i] = 92
    THEN AfterLastBackslash(Tail(s))
    ELSE s

CnEq == <<99, 110, 61>>    \* "cn="
AtSign == 64               \* "@"

\* Line 166: the name is neither a UPN nor taken for a distinguished name.
NeedsDomain(username) ==
    ~Contains(username, <<AtSign>>) /\ ~Contains(LowerStr(username), CnEq)

\* Lines 165-167.
BindName(cfg, name) ==
    LET username == AfterLastBackslash(name) IN
    IF NeedsDomain(username)
    THEN username \o <<AtSign>> \o cfg["AD_DOMAIN"].s
    ELSE username

\* Lines 155-163: the credentials to bind with, or the error raised.
BindCredentials(cfg, credentials) ==
    IF \/ IsNone(credentials)
       \/ ~Has(credentials.d, "username")
       \/ ~Has(credentials.d, "password")
    THEN IF ~Has(cfg, "AD_BIND_USERNAME") \/ IsNone(cfg["AD_BIND_USERNAME"])
         THEN Raise("ValueError")
         ELSE IF ~Has(cfg, "AD_BIND_PASSWORD") \/ IsNone(cfg["AD_BIND_PASSWORD"])
         THEN Raise("ValueError")
         ELSE Return([username |-> cfg["AD_BIND_USERNAME"],
                      password |-> cfg["AD_BIND_PASSWORD"]])
    ELSE Return([username |-> credentials.d["username"],
                 password |-> credentials.d["password"]])

\* bind_s(who, password) on the directory library.
bind_s(srv, cs, who, password) ==
    IF FaultAt(srv, Len(cs), "bind") THEN Raise("SERVER_DOWN")
    ELSE IF <<who, password>> \in srv.accounts THEN Return(None)
    ELSE Raise("INVALID_CREDENTIALS")

\* ADConnection.bind
bind(cfg, srv, cs, credentials) ==
    LET c == BindCredentials(cfg, credentials) IN
    IF c.kind = "raise" THEN Step(c, cs)
    ELSE IF NeedsDomain(AfterLastBackslash(c.value.username.s)) /\ ~Has(cfg, "AD_DOMAIN")
    THEN Step(Raise("KeyError"), cs)
    ELSE LET who == BindName(cfg, c.value.username.s)
             o == bind_s(srv, cs, who, c.value.password.s)
         IN  Step(IF o.kind = "raise" THEN o ELSE Return(Bool(TRUE)),
                  AddEvent(cs, [op |-> "bind", who |-> who,
                                password |-> c.value.password.s,
                                result |-> IF o.kind = "raise" THEN o.exc ELSE "ok"]))

\* ADConnection.unbind
unbind(cs) == AddEvent(cs, [op |-> "unbind"])

\* A variant that unbinds only when the body did not raise.
Finally_OnSuccessOnly(t) ==
    Step(t.out, IF Raised(t.out) THEN t.conns ELSE unbind(t.conns))

\* try: ... finally: connection.unbind() -- t is what the body of the try
\* did: what it returned or raised, and the connections as it left them.
Finally(t) == Step(t.out, unbind(t.conns))

\* connection.ad.search_s(base, SCOPE_SUBTREE, filter, attrlist)
SearchAnswer(srv, cs, base, filter, attrlist) ==
    IF FaultAt(srv, Len(cs), "search") THEN Raise("SERVER_DOWN")
    ELSE IF ~BaseExists(srv, base) THEN Raise("NO_SUCH_OBJECT")
    ELSE Return(SearchResults(srv, base, filter, attrlist))

\* The search o answers, recorded on the connection.
Searched(cs, base, filter, o) ==
    Step(o, AddEvent(cs, [op |-> "search", base |-> base, filter |-> filter,
                          result |-> IF o.kind = "raise" THEN o.exc ELSE "ok"]))

search_s(srv, cs, base, filter, attrlist) ==
    Searched(cs, base, filter, SearchAnswer(srv, cs, base, filter, attrlist))

---------------------------------------------------------------------------
(* EasyAD *)

\* Lines 189-246.  "businessUnitDescriptionc" is what the two adjacent
\* literals of lines 193-194 make.
user_attributes ==
    {"businessCategory", "businessSegment", "businessSegmentDescription",
     "businessUnitDescriptionc", "cn", "co", "company", "costCenter",
     "countryCode", "department", "departmentNumber", "displayName",
     "distinguishedName", "employeeClass", "employeeNumber", "employeeStatus",
     "employeeType", "enterpriseBusinessUnitDescription", "givenName",
     "hireDate", "homeDirectory", "homeDrive", "iamFullName", "ipPhone",
     "jobFamilyDescription", "jobFunctionDescription", "jobTrack", "l",
     "LastLogonTimestamp", "lockoutTime", "mail", "mailNickname", "manager",
     "memberOf", "phonebookVisibility", "physicalDeliveryOfficeName",
     "postalCode", "prefFirstName", "pwdLastSet", "rehireDate", "roomNumber",
     "sAMAccountName", "scriptPath", "showInAddressBook", "siteCode",
     "siteName", "sn", "st", "streetAddress", "telephoneNumber",
     "thumbnailPhoto", "title", "uid", "userAccountControl",
     "userPrincipalName"}

\* Lines 248-254.
group_attributes == {"cn", "distinguishedName", "managedBy", "member", "name"}

\* s.split(sep): the pieces of s between occurrences of the character sep.
RECURSIVE Split(_, _)
Split(s, sep) ==
    IF \A i \in 1..Len(s) : s[i] # sep THEN <<s>>
    ELSE LET i == CHOOSE j \in 1..Len(s) :
                    s[j] = sep /\ \A h \in 1..(j - 1) : s[h] # sep
         IN  <<SubSeq(s, 1, i - 1)>> \o Split(SubSeq(s, i + 1, Len(s)), sep)

\* s.rstrip(","): every trailing comma (44) goes.
RECURSIVE RStripComma(_)
RStripComma(s) ==
    IF s # <<>> /\ s[Len(s)] = 44 THEN RStripComma(SubSeq(s, 1, Len(s) - 1)) ELSE s

DcEq == <<100, 99, 61>>    \* "dc="

RECURSIVE JoinDc(_)
JoinDc(parts) ==
    IF parts = <<>> THEN <<>> ELSE DcEq \o Head(parts) \o <<44>> \o JoinDc(Tail(parts))

\* Lines 275-278.
DerivedBaseDn(domain) == RStripComma(JoinDc(Split(domain, 46)))

\* EasyAD.__init__: what it returns or raises, and the configuration after.
EasyAD_init(cfg) ==
    IF ~Has(cfg, "AD_DOMAIN") THEN [out |-> Raise("KeyError"), config |-> cfg]
    ELSE LET base_dn == DerivedBaseDn(cfg["AD_DOMAIN"].s) IN
         IF ~Has(cfg, "AD_BASE_DN")
         THEN [out |-> Return(None), config |-> SetKey(cfg, "AD_BASE_DN", Str(base_dn))]
         ELSE IF ~Has(cfg, "BASE_DN") THEN [out |-> Raise("KeyError"), config |-> cfg]
         ELSE IF IsNone(cfg["BASE_DN"])
         THEN [out |-> Return(None), config |-> SetKey(cfg, "AD_BASE_DN", Str(base_dn))]
         ELSE [out |-> Return(None), config |-> cfg]

\* The Python value under a key of a decoded object.
PyVal(x) == IF "t" \in DOMAIN x /\ x.t = "scalar" THEN x.s ELSE x

\* user[key] = v, with v what computing the value did.
Stored(user, key, v) == IF Raised(v) THEN v ELSE Return(SetKey(user, key, v.value))

\* Lines 332-335: user[key] = sorted(user[key], key=lambda dn: dn.lower())
\* with r what the statements before did (the user so far, or the error).
SortKey(r, key) ==
    IF Raised(r) \/ ~Has(r.value, key) THEN r
    ELSE Stored(r.value, key, sorted_lower(r.value[key]))

\* Lines 336-337.
DecodeLastLogon(r, now) ==
    IF Raised(r) \/ ~Has(r.value, "lastLogonTimestamp") THEN r
    ELSE Stored(r.value, "lastLogonTimestamp",
                _get_last_logon(r.value["lastLogonTimestamp"], FALSE, now))

\* Lines 338-341.
DecodeTimestamp(r, key, json_safe) ==
    IF Raised(r) \/ ~Has(r.value, key) THEN r
    ELSE Stored(r.value, key, convert_ad_timestamp(r.value[key], json_safe))

\* A variant that compares where the code masks.
BitSet_AtLeast(x, mask) == x >= mask

\* x & mask != 0 for a mask of one bit and x >= 0.
BitSet(x, mask) == (x \div mask) % 2 = 1

UF_ACCOUNTDISABLE == 2
UF_PASSWORD_EXPIRED == 8388608
UF_DONT_EXPIRE_PASSWD == 65536
UF_SMARTCARD_REQUIRED == 262144

\* Lines 343-347, with uac what int(user["userAccountControl"]) did.
StoredFlags(user, uac) ==
    IF Raised(uac) THEN uac
    ELSE Return(("userAccountControl" :> PyInt(uac.value)
                 @@ "disabled" :> Bool(BitSet(uac.value, UF_ACCOUNTDISABLE))
                 @@ "passwordExpired" :> Bool(BitSet(uac.value, UF_PASSWORD_EXPIRED))
                 @@ "passwordNeverExpires" :> Bool(BitSet(uac.value, UF_DONT_EXPIRE_PASSWD))
                 @@ "smartcardRequired" :> Bool(BitSet(uac.value, UF_SMARTCARD_REQUIRED)))
                @@ user)

\* Lines 342-347.
DecodeAccountControl(r) ==
    IF Raised(r) \/ ~Has(r.value, "userAccountControl") THEN r
    ELSE StoredFlags(r.value, py_int(r.value["userAccountControl"]))

\* The dict returned to the caller.
AsDict(r) == IF Raised(r) THEN r ELSE Return(Dict(r.value))

\* Lines 330-347: the post-processing of the one user found.
PostProcessUser(user, json_safe, now) ==
    AsDict(DecodeAccountControl(
        DecodeTimestamp(
            DecodeTimestamp(
                DecodeLastLogon(
                    SortKey(SortKey(Return(user), "memberOf"), "showInAddressBook"),
                    now),
                "lockoutTime", json_safe),
            "pwdLastSet", json_safe)))

\* Lines 325-347: from the decoded search result to the user returned.
UserOf(results, json_safe, now) ==
    IF Len(results) = 0 THEN Raise("ValueError: No such user")
    ELSE IF Len(results) > 1 THEN Raise("ValueError: more than one result")
    ELSE PostProcessUser(results[1], json_safe, now)

\* Lines 323-347: from the raw search result to the user returned.
UserFromResults(raw, json_safe, now) ==
    UserOf(decode_ldap_results(raw, json_safe), json_safe, now)

\* A value that is None stands for the default.
OrDefault(v, default) == IF IsNone(v) THEN default ELSE v

\* connection.bind(credentials), then connection.ad.search_s(...) unless the
\* bind raised; b is what the bind did.
SearchIfBound(srv, b, base, filter_string, attrs) ==
    IF Raised(b.out) THEN b
    ELSE search_s(srv, b.conns, base, filter_string, attrs)

BindAndSearch(cfg, srv, cs, credentials, base, filter_string, attrs) ==
    SearchIfBound(srv, bind(cfg, srv, cs, credentials), base, filter_string, attrs)

\* Lines 323-347 unless the bind or the search raised; s is what they did.
UserIfFound(s, json_safe, now) ==
    IF Raised(s.out) THEN s
    ELSE Step(UserFromResults(s.out.value, json_safe, now), s.conns)

\* Lines 314-350: connection = ADConnection(self.config), then the try
\* block and its finally; c is what the constructor did.
UserTry(cfg, srv, c, credentials, base, filter_string, attrs, json_safe) ==
    IF Raised(c.out) THEN c
    ELSE Finally(UserIfFound(BindAndSearch(cfg, srv, c.conns, credentials, base,
                                           filter_string, attrs),
                             json_safe, srv.now))

\* EasyAD.get_user.  attributes: None, or [t |-> "names", n |-> the set].
get_user(cfg, srv, cs, user_string, base, credentials, attributes, json_safe) ==
    UserTry(cfg, srv, ADConnection(cfg, srv, cs), credentials,
            OrDefault(base, cfg["AD_BASE_DN"]).s,
            UserFilter(user_string.s),
            IF IsNone(attributes) THEN user_attributes ELSE attributes.n,
            json_safe)

\* A variant that turns every error into the sentinel.
SentinelOnAnyError(r) ==
    IF r.out.kind = "raise" THEN Step(Return(Bool(FALSE)), r.conns) ELSE r

\* Lines 378-380: r is what get_user did.
SentinelOnInvalidCredentials(r) ==
    IF r.out.kind = "raise" /\ r.out.exc = "INVALID_CREDENTIALS"
    THEN Step(Return(Bool(FALSE)), r.conns)
    ELSE r

\* EasyAD.authenticate_user
authenticate_user(cfg, srv, cs, username, password, base, attributes, json_safe) ==
    SentinelOnInvalidCredentials(
        get_user(cfg, srv, cs, username, base,
                 Dict([username |-> username, password |-> password]),
                 attributes, json_safe))

\* Lines 421-431: from the decoded search result to the group returned.
GroupOf(results) ==
    IF Len(results) = 0 THEN Raise("ValueError: No such group")
    ELSE IF Len(results) > 1 THEN Raise("ValueError: more than one result")
    ELSE AsDict(SortKey(Return(results[1]), "member"))

\* Lines 419-431: from the raw search result to the group returned.
GroupFromResults(raw, json_safe) == GroupOf(decode_ldap_results(raw, json_safe))

\* Lines 419-431 unless the bind or the search raised; s is what they did.
\* The sort of lines 429-431 follows the finally and touches no connection.
GroupIfFound(s, json_safe) ==
    IF Raised(s.out) THEN s
    ELSE Step(GroupFromResults(s.out.value, json_safe), s.conns)

\* Lines 411-431: connection = ADConnection(self.config), then the try
\* block and its finally; c is what the constructor did.
GroupTry(cfg, srv, c, credentials, base, filter_string, attrs, json_safe) ==
    IF Raised(c.out) THEN c
    ELSE Finally(GroupIfFound(BindAndSearch(cfg, srv, c.conns, credentials, base,
                                            filter_string, attrs),
                              json_safe))

\* EasyAD.get_group
get_group(cfg, srv, cs, group_string, base, credentials, attributes, json_safe) ==
    GroupTry(cfg, srv, ADConnection(cfg, srv, cs), credentials,
             OrDefault(base, cfg["AD_BASE_DN"]).s,
             GroupFilter(group_string.s),
             IF IsNone(attributes) THEN group_attributes ELSE attributes.n,
             json_safe)

\* obj["distinguishedName"] for a dict obj.
DistinguishedNameOf(obj) ==
    IF Has(obj, "distinguishedName") THEN Return(PyVal(obj["distinguishedName"]))
    ELSE Raise("KeyError")

\* r is what the lookup did: the ["distinguishedName"] of what it returned.
DnOfLookup(r) ==
    IF Raised(r.out) THEN r ELSE Step(DistinguishedNameOf(r.out.value.d), r.conns)

\* A variant that looks every str up, a distinguished name too.
resolve_user_dn_AlwaysLookup(cfg, srv, cs, user, base, credentials, json_safe) ==
    IF IsDictValue(user) THEN Step(DistinguishedNameOf(user.d), cs)
    ELSE IF IsStr(user)
    THEN DnOfLookup(get_user(cfg, srv, cs, user, base, credentials, None, json_safe))
    ELSE Step(Raise("ValueError: unsupported data type"), cs)

\* EasyAD.resolve_user_dn.  user: a dict, a str, or a value of another type.
resolve_user_dn(cfg, srv, cs, user, base, credentials, json_safe) ==
    IF IsDictValue(user) THEN Step(DistinguishedNameOf(user.d), cs)
    ELSE IF IsStr(user) THEN
        IF ~StartsWith(LowerStr(user.s), CnEq)
        THEN DnOfLookup(get_user(cfg, srv, cs, user, base, credentials, None, json_safe))
        ELSE Step(Return(user), cs)
    ELSE Step(Raise("ValueError: unsupported data type"), cs)

\* EasyAD.resolve_group_dn
resolve_group_dn(cfg, srv, cs, group, base, credentials, json_safe) ==
    IF IsDictValue(group) THEN Step(DistinguishedNameOf(group.d), cs)
    ELSE IF IsStr(group) THEN
        IF ~StartsWith(LowerStr(group.s), CnEq)
        THEN DnOfLookup(get_group(cfg, srv, cs, group, base, credentials, None, json_safe))
        ELSE Step(Return(group), cs)
    ELSE Step(Raise("ValueError: unsupported data type"), cs)

\* The distinguishedName of every object of a decoded result.
DnsOf(results) == [i \in 1..Len(results) |-> PyVal(results[i]["distinguishedName"])]

\* sorted(dns, key=lambda s: s.lower()); a list has no lower().
SortDns(dns) ==
    IF \E i \in 1..Len(dns) : "k" \notin DOMAIN dns[i] THEN Raise("AttributeError")
    ELSE sorted_lower(List(dns))

\* map(lambda x: x["distinguishedName"], results), sorted.
SortedDnsOf(results) ==
    IF \E i \in 1..Len(results) : ~Has(results[i], "distinguishedName")
    THEN Raise("KeyError")
    ELSE SortDns(DnsOf(results))

\* Lines 518-519 and 557-558: the distinguishedName of every object found,
\* sorted(..., key=lambda s: s.lower()).
SortedDns(raw, json_safe) == SortedDnsOf(decode_ldap_results(raw, json_safe))

\* Lines 518-519 unless the bind or the search raised; s is what they did.
DnsIfFound(s, json_safe) ==
    IF Raised(s.out) THEN s
    ELSE Step(SortedDns(s.out.value, json_safe), s.conns)

\* Lines 509-521 and 549-561: connection = ADConnection(self.config), then
\* the try block and its finally; c is what the constructor did.
DnsTry(cfg, srv, c, credentials, base, filter_string, json_safe) ==
    IF Raised(c.out) THEN c
    ELSE Finally(DnsIfFound(BindAndSearch(cfg, srv, c.conns, credentials, base,
                                          filter_string, {"distinguishedName"}),
                            json_safe))

\* Lines 507-521, with d what resolve_user_dn did: the chained search on a
\* connection of its own.
GroupsOfDn(cfg, srv, d, base, credentials, json_safe) ==
    IF Raised(d.out) THEN d
    ELSE IF ~IsStr(d.out.value) THEN Step(Raise("AttributeError"), d.conns)
    ELSE DnsTry(cfg, srv, ADConnection(cfg, srv, d.conns), credentials,
                OrDefault(base, cfg["AD_BASE_DN"]).s,
                MemberChainFilter(d.out.value.s), json_safe)

\* EasyAD.get_all_user_groups
get_all_user_groups(cfg, srv, cs, user, base, credentials, json_safe) ==
    GroupsOfDn(cfg, srv, resolve_user_dn(cfg, srv, cs, user, None, None, FALSE),
               base, credentials, json_safe)

\* Lines 545-561, with d what resolve_group_dn did.
UsersOfDn(cfg, srv, d, base, credentials, json_safe) ==
    IF Raised(d.out) THEN d
    ELSE IF ~IsStr(d.out.value) THEN Step(Raise("AttributeError"), d.conns)
    ELSE DnsTry(cfg, srv, ADConnection(cfg, srv, d.conns), credentials,
                OrDefault(base, cfg["AD_BASE_DN"]).s,
                MemberOfChainFilter(d.out.value.s), json_safe)

\* EasyAD.get_all_users_in_group
get_all_users_in_group(cfg, srv, cs, group, base, credentials, json_safe) ==
    UsersOfDn(cfg, srv, resolve_group_dn(cfg, srv, cs, group, None, None, FALSE),
              base, credentials, json_safe)

\* Line 581: len(...) > 0 of what get_all_users_in_group did.
NonEmpty(r) ==
    IF Raised(r.out) THEN r
    ELSE Step(Return(Bool(Len(r.out.value.l) > 0)), r.conns)

\* Lines 580-581, with u what resolving the user did and g the group.
MemberSearch(cfg, srv, u, g, credentials) ==
    IF g.out.kind = "raise" THEN g
    ELSE NonEmpty(get_all_users_in_group(cfg, srv, g.conns, g.out.value,
                                         u.out.value, credentials, FALSE))

\* Lines 579-580, with u what resolving the user did.
ResolveGroupThenSearch(cfg, srv, u, group, base, credentials) ==
    IF u.out.kind = "raise" THEN u
    ELSE MemberSearch(cfg, srv, u,
                      resolve_group_dn(cfg, srv, u.conns, group, base, credentials, FALSE),
                      credentials)

\* EasyAD.user_is_member_of_group
user_is_member_of_group(cfg, srv, cs, user, group, base, credentials) ==
    ResolveGroupThenSearch(cfg, srv,
                           resolve_user_dn(cfg, srv, cs, user, base, credentials, FALSE),
                           group, base, credentials)

---------------------------------------------------------------------------
(* The public operations as actions: the whole call, from the arguments to *)
(* what it returns or raises and the connections it used.                  *)

Finish(op, args, r) ==
    /\ call' = [op |-> op, args |-> args]
    /\ out' = r.out
    /\ conns' = r.conns
    /\ UNCHANGED <<config, server, client>>

\* The client is constructed and the caller holds no result of an earlier
\* call: the operations are synchronous and run one at a time.
Ready == client = "ok" /\ call.op = "none"

\* The caller takes the result; the connections of the call are gone.
TakeResult ==
    /\ client = "ok"
    /\ call.op # "none"
    /\ call' = [op |-> "none"]
    /\ out' = [kind |-> "none"]
    /\ conns' = <<>>
    /\ UNCHANGED <<config, server, client>>

GetUser(user_string, base, credentials, attributes, json_safe) ==
    /\ Ready
    /\ Finish("get_user",
              [user_string |-> user_string, base |-> base, credentials |-> credentials,
               attributes |-> attributes, json_safe |-> json_safe],
              get_user(config, server, <<>>, user_string, base, credentials,
                       attributes, json_safe))

GetGroup(group_string, base, credentials, attributes, json_safe) ==
    /\ Ready
    /\ Finish("get_group",
              [group_string |-> group_string, base |-> base, credentials |-> credentials,
               attributes |-> attributes, json_safe |-> json_safe],
              get_group(config, server, <<>>, group_string, base, credentials,
                        attributes, json_safe))

AuthenticateUser(username, password, base, attributes, json_safe) ==
    /\ Ready
    /\ Finish("authenticate_user",
              [username |-> username, password |-> password, base |-> base,
               attributes |-> attributes, json_safe |-> json_safe],
              authenticate_user(config, server, <<>>, username, password, base,
                                attributes, json_safe))

ResolveUserDn(user, base, credentials, json_safe) ==
    /\ Ready
    /\ Finish("resolve_user_dn",
              [user |-> user, base |-> base, credentials |-> credentials,
               json_safe |-> json_safe],
              resolve_user_dn(config, server, <<>>, user, base, credentials, json_safe))

ResolveGroupDn(group, base, credentials, json_safe) ==
    /\ Ready
    /\ Finish("resolve_group_dn",
              [group |-> group, base |-> base, credentials |-> credentials,
               json_safe |-> json_safe],
              resolve_group_dn(config, server, <<>>, group, base, credentials, json_safe))

GetAllUserGroups(user, base, credentials, json_safe) ==
    /\ Ready
    /\ Finish("get_all_user_groups",
              [user |-> user, base |-> base, credentials |-> credentials,
               json_safe |-> json_safe],
              get_all_user_groups(config, server, <<>>, user, base, credentials,
                                  json_safe))

GetAllUsersInGroup(group, base, credentials, json_safe) ==
    /\ Ready
    /\ Finish("get_all_users_in_group",
              [group |-> group, base |-> base, credentials |-> credentials,
               json_safe |-> json_safe],
              get_all_users_in_group(config, server, <<>>, group, base, credentials,
                                     json_safe))

UserIsMemberOfGroup(user, group, base, credentials) ==
    /\ Ready
    /\ Finish("user_is_member_of_group",
              [user |-> user, group |-> group, base |-> base,
               credentials |-> credentials],
              user_is_member_of_group(config, server, <<>>, user, group, base,
                                      credentials))

\* decode_ldap_results called on what a search of the whole directory for
\* the given filter hands back.
DecodeResults(filter, json_safe) ==
    LET raw == SearchResults(server, server.root, filter, {}) IN
    /\ Ready
    /\ Finish("decode_ldap_results", [results |-> raw, json_safe |-> json_safe],
              Step(Return([t |-> "results", l |-> decode_ldap_results(raw, json_safe)]),
                   <<>>))

---------------------------------------------------------------------------
(* Texts of the modelled directory *)

RootDn == <<100, 99, 61, 120>>                          \* "dc=x"
UserDn == <<67, 78, 61, 117, 44, 100, 99, 61, 120>>     \* "CN=u,dc=x"
UserDn2 == <<67, 78, 61, 118, 44, 100, 99, 61, 120>>    \* "CN=v,dc=x"
GroupDn == <<67, 78, 61, 103, 44, 100, 99, 61, 120>>    \* "CN=g,dc=x"
GroupDn2 == <<67, 78, 61, 104, 44, 100, 99, 61, 120>>   \* "CN=h,dc=x"
Sam == <<117>>                                          \* "u"
Sam2 == <<118>>                                         \* "v"
GroupCn == <<103>>                                      \* "g"
GroupCn2 == <<104>>                                     \* "h"
DomainName == <<120>>                                   \* "x"
Host == <<115>>                                         \* "s"
BindUser == <<98>>                                      \* "b"
BindUpn == <<98, 64, 120>>                              \* "b@x"
Pw == <<112>>                                           \* "p"
BadPw == <<113>>                                        \* "q"
RefUrl == <<108, 100, 97, 112, 58, 47, 47, 114>>        \* "ldap://r"

Referral == [cls |-> "referral", urls |-> <<Bytes(RefUrl)>>]

\* The decimal digits of n >= 0, as the directory sends an integer.
RECURSIVE Decimal(_)
Decimal(n) == IF n < 10 THEN <<48 + n>> ELSE Decimal(n \div 10) \o <<48 + (n % 10)>>

SeqsUpTo(S, n) == UNION { [1..m -> S] : m \in 0..n }

\* The configuration of a constructed client with a default bind identity.
PlainConfig ==
    [AD_SERVER |-> Str(Host), AD_DOMAIN |-> Str(DomainName),
     AD_BASE_DN |-> Str(RootDn),
     AD_BIND_USERNAME |-> Str(BindUser), AD_BIND_PASSWORD |-> Str(Pw)]

NoFault == [conn |-> 0, at |-> "none"]

---------------------------------------------------------------------------
(* SpecNorm: get_user, get_group and decode_ldap_results over a range of   *)
(* directory answers.                                                      *)

MaxVals == 3       \* most values of one attribute
MaxEntries == 2    \* most items in an answer of plain objects and referrals

\* Values of memberOf / showInAddressBook / member: UTF-8 of
\* "cn=a", "CN=b" and "cn=É".
MemberValues ==
    { Bytes(<<99, 110, 61, 97>>), Bytes(<<67, 78, 61, 98>>),
      Bytes(<<99, 110, 61, 195, 137>>) }

MemberLists == SeqsUpTo(MemberValues, MaxVals) \ {<<>>}

\* userAccountControl values: every combination of the four decoded bits,
\* a neighbouring bit (0x20000) and NORMAL_ACCOUNT (0x200).
UacBits == <<2, 512, 65536, 131072, 262144, 8388608>>

RECURSIVE SumBits(_, _)
SumBits(bits, chosen) ==
    IF bits = <<>> THEN 0
    ELSE (IF Len(bits) \in chosen THEN bits[Len(bits)] ELSE 0)
         + SumBits(SubSeq(bits, 1, Len(bits) - 1), chosen)

UacValues == { SumBits(UacBits, c) : c \in SUBSET (1..Len(UacBits)) }

\* Values that are no text: a JPEG header and a lone continuation byte.
BinaryValues == { Bytes(<<255, 216, 255>>), Bytes(<<128>>) }

\* Timestamps, in 100 ns ticks since 1601: unset, 1 s, 2 days.
TimestampValues == { Bytes(Decimal(0)), Bytes(Decimal(10000000)),
                     Bytes(Decimal(1728000000)) }

PlainUser(dn) ==
    [cls |-> "user", dn |-> dn,
     attrs |-> [distinguishedName |-> <<Bytes(dn)>>, sAMAccountName |-> <<Bytes(Sam)>>]]

PlainGroup(dn) ==
    [cls |-> "group", dn |-> dn,
     attrs |-> [distinguishedName |-> <<Bytes(dn)>>, cn |-> <<Bytes(GroupCn)>>]]

WithAttr(o, a, values) == [o EXCEPT !.attrs = (a :> values) @@ @]

\* One object in which one attribute varies.
VariedObjects ==
    { WithAttr(PlainUser(UserDn), a, l) :
        a \in {"memberOf", "showInAddressBook"}, l \in MemberLists }
    \cup { WithAttr(PlainGroup(GroupDn), "member", l) : l \in MemberLists }
    \cup { WithAttr(PlainUser(UserDn), "userAccountControl", <<Bytes(Decimal(v))>>) :
            v \in UacValues }
    \cup { WithAttr(PlainUser(UserDn), "thumbnailPhoto", l) :
            l \in SeqsUpTo(BinaryValues, 2) \ {<<>>} }
    \cup { WithAttr(PlainUser(UserDn), a, <<v>>) :
            a \in {"lastLogonTimestamp", "lockoutTime", "pwdLastSet"},
            v \in TimestampValues }

PlainItems ==
    { Referral, PlainUser(UserDn), PlainUser(UserDn2),
      PlainGroup(GroupDn), PlainGroup(GroupDn2) }

NormDirectories ==
    SeqsUpTo(PlainItems, MaxEntries)
    \cup { <<o>> : o \in VariedObjects }
    \cup { <<Referral, o>> : o \in VariedObjects }
    \cup { <<o, Referral>> : o \in VariedObjects }

InitNorm ==
    /\ config = PlainConfig
    /\ server \in { [root |-> RootDn, objects |-> d,
                     accounts |-> {<<BindUpn, Pw>>}, fault |-> NoFault,
                     now |-> [day |-> 20, sec |-> 0]] : d \in NormDirectories }
    /\ client = "ok"
    /\ conns = <<>>
    /\ call = [op |-> "none"]
    /\ out = [kind |-> "none"]

NextNorm ==
    \/ \E json_safe \in BOOLEAN : GetUser(Str(Sam), None, None, None, json_safe)
    \/ \E json_safe \in BOOLEAN : GetGroup(Str(GroupCn), None, None, None, json_safe)
    \/ \E json_safe \in BOOLEAN : DecodeResults(UserFilter(Sam), json_safe)
    \/ TakeResult

SpecNorm == InitNorm /\ [][NextNorm]_vars

---------------------------------------------------------------------------
(* Spec: the public operations of a constructed client against a small     *)
(* directory, with and without a fault of the directory library.           *)

Upn == <<117, 64, 120>>                                 \* "u@x"
SvcUpn == <<122, 64, 120>>                              \* "z@x"
Svc == <<122>>                                          \* "z"
UserDn3 == <<67, 78, 61, 119, 44, 100, 99, 61, 120>>    \* "CN=w,dc=x"
GroupDn3 == <<67, 78, 61, 107, 44, 100, 99, 61, 120>>   \* "CN=k,dc=x"

\* u is a member of g, g of h; v is in no group.
UserU ==
    [cls |-> "user", dn |-> UserDn,
     attrs |-> [distinguishedName |-> <<Bytes(UserDn)>>,
                sAMAccountName |-> <<Bytes(Sam)>>,
                userPrincipalName |-> <<Bytes(Upn)>>,
                memberOf |-> <<Bytes(GroupDn)>>,
                userAccountControl |-> <<Bytes(Decimal(512))>>]]
UserV ==
    [cls |-> "user", dn |-> UserDn2,
     attrs |-> [distinguishedName |-> <<Bytes(UserDn2)>>,
                sAMAccountName |-> <<Bytes(Sam2)>>]]
GroupG ==
    [cls |-> "group", dn |-> GroupDn,
     attrs |-> [distinguishedName |-> <<Bytes(GroupDn)>>, cn |-> <<Bytes(GroupCn)>>,
                member |-> <<Bytes(UserDn)>>, memberOf |-> <<Bytes(GroupDn2)>>]]
GroupH ==
    [cls |-> "group", dn |-> GroupDn2,
     attrs |-> [distinguishedName |-> <<Bytes(GroupDn2)>>, cn |-> <<Bytes(GroupCn2)>>,
                member |-> <<Bytes(GroupDn)>>]]
\* A second user named u and a second group named g.
UserW == [UserU EXCEPT !.dn = UserDn3,
                       !.attrs["distinguishedName"] = <<Bytes(UserDn3)>>]
GroupK == [GroupG EXCEPT !.dn = GroupDn3,
                         !.attrs["distinguishedName"] = <<Bytes(GroupDn3)>>]

\* An entry below the entry of v: a user named c, a member of g.
ChildDn == <<67, 78, 61, 99, 44>> \o UserDn2                \* "CN=c," and v's DN
UserC ==
    [cls |-> "user", dn |-> ChildDn,
     attrs |-> [distinguishedName |-> <<Bytes(ChildDn)>>,
                sAMAccountName |-> <<Bytes(<<99>>)>>,
                memberOf |-> <<Bytes(GroupDn)>>]]
GroupGC == [GroupG EXCEPT !.attrs["member"] = <<Bytes(UserDn), Bytes(ChildDn)>>]

Directories ==
    { <<UserU, UserV, GroupG, GroupH, Referral>>,
      <<UserU, UserW, GroupG, GroupK, GroupH>>,
      <<UserU, UserV, UserC, GroupGC, GroupH>> }

\* At most three connections are constructed by one operation.
Faults ==
    {NoFault}
    \cup { [conn |-> n, at |-> w] : n \in 1..3, w \in {"initialize", "bind", "search"} }

\* With and without a default bind identity.
Configs ==
    { PlainConfig,
      [AD_SERVER |-> Str(Host), AD_DOMAIN |-> Str(DomainName),
       AD_BASE_DN |-> Str(RootDn)] }

Credentials ==
    { None,
      Dict([username |-> Str(Sam), password |-> Str(Pw)]),
      Dict([username |-> Str(Sam), password |-> Str(BadPw)]) }

Bases == { None, Str(RootDn) }

\* The forms of a user argument: a name, a name of nobody, a DN in either
\* case, a user object, and a value of an unsupported type.
UserRefs ==
    { Str(Sam), Str(Svc), Str(UserDn), Str(LowerStr(UserDn2)),
      Dict([distinguishedName |-> Scalar(Str(UserDn))]), PyInt(7) }

GroupRefs ==
    { Str(GroupCn), Str(Svc), Str(GroupDn2),
      Dict([distinguishedName |-> Scalar(Str(GroupDn))]), PyInt(7) }

AttributeLists == { None, [t |-> "names", n |-> {"distinguishedName", "memberOf"}] }

Init ==
    /\ config \in Configs
    /\ server \in { [root |-> RootDn, objects |-> d,
                     accounts |-> {<<BindUpn, Pw>>, <<Upn, Pw>>, <<SvcUpn, Pw>>},
                     fault |-> f, now |-> [day |-> 20, sec |-> 0]] :
                    d \in Directories, f \in Faults }
    /\ client = "ok"
    /\ conns = <<>>
    /\ call = [op |-> "none"]
    /\ out = [kind |-> "none"]

Next ==
    \/ \E u \in {Str(Sam), Str(Sam2), Str(Svc)}, b \in Bases, c \in Credentials,
          a \in AttributeLists : GetUser(u, b, c, a, FALSE)
    \/ \E g \in {Str(GroupCn), Str(GroupCn2), Str(Svc)}, b \in Bases, c \in Credentials,
          a \in AttributeLists : GetGroup(g, b, c, a, FALSE)
    \/ \E u \in {Str(Sam), Str(Sam2), Str(Svc)}, pw \in {Str(Pw), Str(BadPw)},
          b \in Bases, a \in AttributeLists : AuthenticateUser(u, pw, b, a, FALSE)
    \/ \E u \in UserRefs, b \in Bases, c \in Credentials : ResolveUserDn(u, b, c, FALSE)
    \/ \E g \in GroupRefs, b \in Bases, c \in Credentials : ResolveGroupDn(g, b, c, FALSE)
    \/ \E u \in UserRefs, b \in Bases, c \in Credentials : GetAllUserGroups(u, b, c, FALSE)
    \/ \E g \in GroupRefs, b \in Bases, c \in Credentials : GetAllUsersInGroup(g, b, c, FALSE)
    \/ \E u \in UserRefs, g \in GroupRefs, b \in Bases, c \in Credentials :
          UserIsMemberOfGroup(u, g, b, c)
    \/ TakeResult

Spec == Init /\ [][Next]_vars

---------------------------------------------------------------------------
(* SpecConn: EasyAD(config), ADConnection(config) and bind(credentials)    *)
(* over a range of configurations and bind names.                          *)

Construct ==
    LET r == EasyAD_init(config) IN
    /\ client = "none"
    /\ call' = [op |-> "EasyAD", args |-> [config |-> config]]
    /\ out' = r.out
    /\ config' = r.config
    /\ client' = IF r.out.kind = "raise" THEN r.out.exc ELSE "ok"
    /\ UNCHANGED <<server, conns>>

OpenConnection ==
    LET r == ADConnection(config, server, <<>>) IN
    /\ conns = <<>>
    /\ call' = [op |-> "ADConnection", args |-> [config |-> config]]
    /\ out' = r.out
    /\ conns' = r.conns
    /\ UNCHANGED <<config, server, client>>

Bind(credentials) ==
    LET r == bind(config, server, conns, credentials) IN
    /\ Len(conns) = 1
    /\ conns[1].events = <<>>
    /\ call' = [op |-> "bind", args |-> [credentials |-> credentials]]
    /\ out' = r.out
    /\ conns' = r.conns
    /\ UNCHANGED <<config, server, client>>

MaxNameLen == 4    \* longest bind name made of the characters @ c n =

\* Bind names: every text of up to MaxNameLen of the characters @ c n =, and
\* "D\bob", "D\E\cn=a", "CN=a", "Cn=a,dc=x", "bob", "bob@x", "uid=a,cn=b", "\".
BindNames ==
    SeqsUpTo({64, 99, 110, 61}, MaxNameLen)
    \cup { <<68, 92, 98, 111, 98>>, <<68, 92, 69, 92, 99, 110, 61, 97>>,
           <<67, 78, 61, 97>>, <<67, 110, 61, 97, 44, 100, 99, 61, 120>>,
           <<98, 111, 98>>, <<98, 111, 98, 64, 120>>,
           <<117, 105, 100, 61, 97, 44, 99, 110, 61, 98>>, <<92>> }

ConnCredentials ==
    { None, Dict(<<>>), Dict([username |-> Str(Sam)]) }
    \cup { Dict([username |-> Str(n), password |-> Str(Pw)]) : n \in BindNames }

\* Domains: "x", "a.b", "a.b.c", "a..b", ".a", "a."
Domains ==
    { <<120>>, <<97, 46, 98>>, <<97, 46, 98, 46, 99>>, <<97, 46, 46, 98>>,
      <<46, 97>>, <<97, 46>> }

\* "ou=o,dc=x"
OtherBase == <<111, 117, 61, 111, 44, 100, 99, 61, 120>>

Absent == [t |-> "absent"]

\* The dictionary of the given keys, leaving out those marked Absent.
ConfigOf(pairs) ==
    [key \in { q \in DOMAIN pairs : pairs[q] # Absent } |-> pairs[key]]

ConnConfigs ==
    \* the TLS policy
    { ConfigOf([AD_SERVER |-> Str(Host), AD_DOMAIN |-> Str(DomainName),
                AD_REQUIRE_TLS |-> tls, AD_CA_CERT_FILE |-> ca]) :
        tls \in {Absent, Bool(TRUE), Bool(FALSE), None, Str(<<48>>)},
        ca \in {Absent, None, Str(<<>>), Str(<<102>>)} }
    \* the base DN
    \cup { ConfigOf([AD_SERVER |-> Str(Host), AD_DOMAIN |-> Str(d),
                     AD_BASE_DN |-> b, BASE_DN |-> bb]) :
        d \in Domains, b \in {Absent, Str(OtherBase)},
        bb \in {Absent, None, Str(OtherBase)} }
    \* the default bind identity
    \cup { ConfigOf([AD_SERVER |-> Str(Host), AD_DOMAIN |-> Str(DomainName),
                     AD_BIND_USERNAME |-> u, AD_BIND_PASSWORD |-> pw]) :
        u \in {Absent, None, Str(BindUser)}, pw \in {Absent, None, Str(Pw)} }
    \* a required key missing
    \cup { [AD_SERVER |-> Str(Host)], [AD_DOMAIN |-> Str(DomainName)] }

PlainServer ==
    [root |-> RootDn, objects |-> <<PlainUser(UserDn)>>,
     accounts |-> {<<BindUpn, Pw>>}, fault |-> NoFault,
     now |-> [day |-> 20, sec |-> 0]]

InitConn ==
    /\ config \in ConnConfigs
    /\ server = PlainServer
    /\ client = "none"
    /\ conns = <<>>
    /\ call = [op |-> "none"]
    /\ out = [kind |-> "none"]

NextConn ==
    \/ Construct
    \/ OpenConnection
    \/ \E credentials \in ConnCredentials : Bind(credentials)

SpecConn == InitConn /\ [][NextConn]_vars

---------------------------------------------------------------------------
(* Properties of SpecConn *)

\* C5 (as claimed): a connection demands TLS unless the configuration holds
\* the TLS-requirement flag set to false; absent, or any other value (None
\* for one), TLS is demanded.
C5_TlsUnlessFalse ==
    \A i \in 1..Len(conns) :
        conns[i].tls_demand = 0
            <=> (Has(config, "AD_REQUIRE_TLS") /\ config["AD_REQUIRE_TLS"] = Bool(FALSE))

\* C6 (as claimed): bind keeps what follows the last backslash and appends
\* '@<domain>' iff that has no '@' and does not start with 'cn=' (any case).
C6_DomainUnlessCnPrefix ==
    ( /\ call.op = "bind"
      /\ IsDictValue(call.args.credentials)
      /\ DOMAIN call.args.credentials.d = {"username", "password"}
      /\ Has(config, "AD_DOMAIN") ) =>
        LET kept == AfterLastBackslash(call.args.credentials.d["username"].s) IN
        /\ Len(conns[1].events) = 1
        /\ conns[1].events[1].op = "bind"
        /\ conns[1].events[1].who
             = IF ~Contains(kept, <<AtSign>>) /\ ~StartsWith(LowerStr(kept), CnEq)
               THEN kept \o <<AtSign>> \o config["AD_DOMAIN"].s
               ELSE kept

\* The base DN derived from a domain: "dc=<part>" for each part between
\* dots, joined by commas.
RECURSIVE DcOfParts(_)
DcOfParts(parts) ==
    IF Len(parts) = 1 THEN DcEq \o parts[1]
    ELSE DcEq \o parts[1] \o <<44>> \o DcOfParts(Tail(parts))

\* C7 (as claimed): constructing a client succeeds for every configuration
\* with a server and a domain; without a base DN the client's base DN is
\* derived from the domain, and a base DN supplied is kept.
C7_ConstructionSucceeds ==
    ( /\ call.op = "EasyAD"
      /\ Has(call.args.config, "AD_SERVER")
      /\ Has(call.args.config, "AD_DOMAIN") ) =>
        /\ out.kind = "return"
        /\ client = "ok"
        /\ ~Has(call.args.config, "AD_BASE_DN") =>
              config["AD_BASE_DN"]
                = Str(DcOfParts(Split(call.args.config["AD_DOMAIN"].s, 46)))
        /\ Has(call.args.config, "AD_BASE_DN") =>
              config["AD_BASE_DN"] = call.args.config["AD_BASE_DN"]

---------------------------------------------------------------------------
(* Properties of SpecNorm *)

\* What the directory answered the last get_user / get_group call: the
\* search of the whole directory for the call's filter, every attribute.
AnswerOf(c) ==
    IF c.op = "get_user"
    THEN SearchResults(server, server.root, UserFilter(c.args.user_string.s), {})
    ELSE SearchResults(server, server.root, GroupFilter(c.args.group_string.s), {})

\* The positions of the genuine entries (dicts) of an answer.
Genuine(raw) == { i \in 1..Len(raw) : raw[i].entry.t = "dict" }

\* The position of the j-th genuine entry.
GenuineAt(raw, j) ==
    CHOOSE i \in Genuine(raw) : Cardinality({ h \in Genuine(raw) : h <= i }) = j

IsLookup == call.op \in {"get_user", "get_group"}

\* C2: get_user and get_group count the genuine entries only: none is a
\* not-found error, two or more an ambiguous-result error, and exactly one
\* is returned; an error returns no entry.
C2_CountGenuineEntries ==
    IsLookup =>
        LET raw == AnswerOf(call)
            n == Cardinality(Genuine(raw))
            what == IF call.op = "get_user" THEN "user" ELSE "group"
        IN  /\ n = 0 => out = Raise("ValueError: No such " \o what)
            /\ n >= 2 => out = Raise("ValueError: more than one result")
            /\ n = 1 =>
                /\ out.kind = "return"
                /\ out.value.t = "dict"
                /\ DOMAIN raw[GenuineAt(raw, 1)].entry.d \subseteq DOMAIN out.value.d
                /\ out.value.d["distinguishedName"]
                     = Scalar(Str(raw[GenuineAt(raw, 1)].dn.s))

\* A referral is discarded and the one genuine entry is returned.
C2_Witness ==
    /\ call.op = "get_user"
    /\ Len(AnswerOf(call)) = 2
    /\ Cardinality(Genuine(AnswerOf(call))) = 1
    /\ out.kind = "return"

\* The text a raw value decodes to.
TextOf(v) == Str(Utf8Decode(v.s).s)

Count(l, x) == Cardinality({ i \in 1..Len(l) : l[i] = x })

\* l is a list holding the texts of the raw values, each as often, in
\* case-insensitive ascending order.
SortedValuesOf(x, values) ==
    /\ x.t = "list"
    /\ Len(x.l) = Len(values)
    /\ \A i \in 1..Len(values) :
          Count(x.l, TextOf(values[i]))
            = Cardinality({ j \in 1..Len(values) : TextOf(values[j]) = TextOf(values[i]) })
    /\ \A i, j \in 1..Len(x.l) :
          i < j => ~LexLess(LowerStr(x.l[j].s), LowerStr(x.l[i].s))

SortedAttributes(op) ==
    IF op = "get_user" THEN {"memberOf", "showInAddressBook"} ELSE {"member"}

\* C8 (as claimed): on a unique match the sorted attributes hold exactly the
\* values the directory returned, in case-insensitive ascending order, for
\* any number of values from one upward.
C8_SortedValuesFromOne ==
    (IsLookup /\ out.kind = "return") =>
        LET found == AnswerOf(call)[GenuineAt(AnswerOf(call), 1)].entry.d IN
        \A a \in SortedAttributes(call.op) \cap DOMAIN found :
            SortedValuesOf(out.value.d[a], found[a])

\* C9: decode_ldap_results keeps one entry per genuine input entry, in input
\* order, and drops the others; an attribute with one raw value becomes a
\* scalar, one with N > 1 raw values a sequence of length N in input order.
C9_DecodeShape ==
    call.op = "decode_ldap_results" =>
        LET raw == call.args.results
            res == out.value.l
        IN  /\ Len(res) = Cardinality(Genuine(raw))
            /\ \A j \in 1..Len(res) :
                 LET src == raw[GenuineAt(raw, j)].entry.d IN
                 /\ DOMAIN res[j] = DOMAIN src
                 /\ \A a \in DOMAIN src :
                      /\ Len(src[a]) = 1 =>
                            res[j][a] = Scalar(DecodeValue(src[a][1], call.args.json_safe))
                      /\ Len(src[a]) > 1 =>
                            /\ res[j][a].t = "list"
                            /\ Len(res[j][a].l) = Len(src[a])
                            /\ \A i \in 1..Len(src[a]) :
                                 res[j][a].l[i]
                                   = DecodeValue(src[a][i], call.args.json_safe)

\* A referral dropped, and an entry with a one-valued and a many-valued
\* attribute whose values differ.
C9_Witness ==
    /\ call.op = "decode_ldap_results"
    /\ Len(call.args.results) = 2
    /\ Len(out.value.l) = 1
    /\ "memberOf" \in DOMAIN out.value.l[1]
    /\ out.value.l[1]["memberOf"].t = "list"
    /\ Len(out.value.l[1]["memberOf"].l) >= 2
    /\ out.value.l[1]["memberOf"].l[1] # out.value.l[1]["memberOf"].l[2]
    /\ out.value.l[1]["distinguishedName"].t = "scalar"

\* C10: get_user sets each of the four flags iff its own bit of the
\* user-account-control value is set.
C10_FlagsFollowBits ==
    (call.op = "get_user" /\ out.kind = "return") =>
        LET found == AnswerOf(call)[GenuineAt(AnswerOf(call), 1)].entry.d IN
        \A c \in SUBSET (1..Len(UacBits)) :
            ( /\ "userAccountControl" \in DOMAIN found
              /\ found["userAccountControl"] = <<Bytes(Decimal(SumBits(UacBits, c)))>> )
            => /\ out.value.d["userAccountControl"] = PyInt(SumBits(UacBits, c))
               /\ out.value.d["disabled"] = Bool(1 \in c)
               /\ out.value.d["passwordNeverExpires"] = Bool(3 \in c)
               /\ out.value.d["smartcardRequired"] = Bool(5 \in c)
               /\ out.value.d["passwordExpired"] = Bool(6 \in c)

\* 8388608 alone: passwordExpired and no other flag.
C10_Witness ==
    /\ call.op = "get_user"
    /\ out.kind = "return"
    /\ "userAccountControl" \in DOMAIN out.value.d
    /\ out.value.d["userAccountControl"] = PyInt(8388608)
    /\ out.value.d["passwordExpired"] = Bool(TRUE)
    /\ out.value.d["disabled"] = Bool(FALSE)


---------------------------------------------------------------------------
(* Properties of Spec *)

\* The operations of the events of the i-th connection, in order.
Ops(i) == [k \in 1..Len(conns[i].events) |-> conns[i].events[k].op]

Finished == call.op # "none"

\* C1: when an operation has returned or raised, every connection it
\* constructed has been unbound exactly once, after everything else done on
\* it.
C1_UnboundOnce ==
    Finished =>
        \A i \in 1..Len(conns) :
            /\ Cardinality({ k \in 1..Len(Ops(i)) : Ops(i)[k] = "unbind" }) = 1
            /\ Ops(i)[Len(Ops(i))] = "unbind"

\* The search of the second connection of get_all_user_groups fails: both
\* connections are unbound and the error reaches the caller.
C1_Witness ==
    /\ call.op = "get_all_user_groups"
    /\ out = Raise("SERVER_DOWN")
    /\ Len(conns) = 2
    /\ Ops(1) = <<"bind", "search", "unbind">>
    /\ Ops(2) = <<"bind", "search", "unbind">>
    /\ conns[2].events[2].result = "SERVER_DOWN"

\* The directory library answered the bind of the call with this result.
BindAnswered(result) ==
    \E i \in 1..Len(conns) : \E k \in 1..Len(conns[i].events) :
        /\ conns[i].events[k].op = "bind"
        /\ conns[i].events[k].result = result

\* The fault of the first connection.
FirstFault(where) == server.fault.conn = 1 /\ server.fault.at = where

\* C3: authenticate_user returns False exactly when the directory library
\* reports invalid credentials; every other failure reaches the caller as
\* the error it is; when the bind and the unique lookup succeed the user
\* found is returned.
C3_SentinelOnInvalidCredentials ==
    call.op = "authenticate_user" =>
        LET raw == SearchResults(server, server.root,
                                 UserFilter(call.args.username.s), {})
            n == Cardinality(Genuine(raw))
            searched == BindAnswered("ok") /\ ~FirstFault("search")
        IN  /\ out = Return(Bool(FALSE)) <=> BindAnswered("INVALID_CREDENTIALS")
            /\ BindAnswered("INVALID_CREDENTIALS")
                 <=> /\ ~FirstFault("initialize") /\ ~FirstFault("bind")
                     /\ <<call.args.username.s \o <<64>> \o config["AD_DOMAIN"].s,
                          call.args.password.s>> \notin server.accounts
            /\ FirstFault("initialize") => out = Raise("LDAPError")
            /\ FirstFault("bind") => out = Raise("SERVER_DOWN")
            /\ (BindAnswered("ok") /\ FirstFault("search")) => out = Raise("SERVER_DOWN")
            /\ (searched /\ n = 0) => out = Raise("ValueError: No such user")
            /\ (searched /\ n >= 2) => out = Raise("ValueError: more than one result")
            /\ (searched /\ n = 1) =>
                /\ out.kind = "return"
                /\ out.value.t = "dict"
                /\ out.value.d["distinguishedName"]
                     = Scalar(Str(raw[GenuineAt(raw, 1)].dn.s))

\* A wrong password: the sentinel, and the connection unbound.
C3_Witness ==
    /\ call.op = "authenticate_user"
    /\ call.args.password = Str(BadPw)
    /\ out = Return(Bool(FALSE))
    /\ Len(conns) = 1
    /\ Ops(1) = <<"bind", "unbind">>
    /\ conns[1].events[1].result = "INVALID_CREDENTIALS"

\* The call returned and the directory library reported no failure.
NoFailure ==
    /\ out.kind = "return"
    /\ \A i \in 1..Len(conns) : \A k \in 1..Len(conns[i].events) :
         "result" \in DOMAIN conns[i].events[k] => conns[i].events[k].result = "ok"

\* C4 as stated: every operation, for every form of its argument, opens one
\* connection, binds once, searches once and unbinds.
C4_OneConnectionPerOperation ==
    (Finished /\ NoFailure) =>
        /\ Len(conns) = 1
        /\ Ops(1) = <<"bind", "search", "unbind">>

\* A str that does not start with "cn=" (in any case) is a name to look up;
\* a distinguished name or an object is not looked up.
LookedUp(ref) ==
    IF IsStr(ref) /\ ~(Len(ref.s) >= 3 /\ LowerStr(SubSeq(ref.s, 1, 3)) = <<99, 110, 61>>)
    THEN 1 ELSE 0

\* The connections an operation constructs when nothing fails.
ConnectionsOf(c) ==
    CASE c.op \in {"get_user", "get_group", "authenticate_user"} -> 1
      [] c.op = "resolve_user_dn" -> LookedUp(c.args.user)
      [] c.op = "resolve_group_dn" -> LookedUp(c.args.group)
      [] c.op = "get_all_user_groups" -> LookedUp(c.args.user) + 1
      [] c.op = "get_all_users_in_group" -> LookedUp(c.args.group) + 1
      [] c.op = "user_is_member_of_group" ->
            LookedUp(c.args.user) + LookedUp(c.args.group) + 1

\* C4, amended: an operation constructs one connection for each lookup of a
\* name and one for its own search, none for a distinguished name or an
\* object it only resolves; each connection is bound at most once, searched
\* at most once and only after a bind that succeeded, and unbound; when
\* nothing fails each is bound once, searched once and unbound.
C4_OneConnectionPerSearch ==
    Finished =>
        /\ Len(conns) <= ConnectionsOf(call)
        /\ \A i \in 1..Len(conns) :
             /\ Ops(i) \in {<<"unbind">>, <<"bind", "unbind">>,
                            <<"bind", "search", "unbind">>}
             /\ Len(Ops(i)) = 3 => conns[i].events[1].result = "ok"
        /\ NoFailure =>
             /\ Len(conns) = ConnectionsOf(call)
             /\ \A i \in 1..Len(conns) : Ops(i) = <<"bind", "search", "unbind">>

\* get_all_user_groups for a name: a connection for the lookup of the
\* name and one for the chained search; resolve_user_dn of a
\* distinguished name: none.
C4_Witness ==
    /\ call.op = "get_all_user_groups"
    /\ call.args.user = Str(Sam)
    /\ NoFailure
    /\ Len(conns) = 2
    /\ Ops(1) = <<"bind", "search", "unbind">>
    /\ Ops(2) = <<"bind", "search", "unbind">>
    /\ conns[1].events[2].filter = UserFilter(Sam)
    /\ conns[2].events[2].filter = MemberChainFilter(UserDn)

\* The objects of class cls that a user or group argument denotes: the
\* object of the distinguished name given (as a str or in a dict), or the
\* objects below base that the lookup of a name finds.
Denoted(ref, cls, base) ==
    { i \in 1..Len(server.objects) :
        /\ server.objects[i].cls = cls
        /\ IF IsDictValue(ref)
           THEN CaseIgnoreEq(server.objects[i].dn, ref.d["distinguishedName"].s.s)
           ELSE IF IsStr(ref) /\ LookedUp(ref) = 0
           THEN CaseIgnoreEq(server.objects[i].dn, ref.s)
           ELSE /\ IsStr(ref)
                /\ UnderBase(server.objects[i].dn, base)
                /\ Matches(server, server.objects[i],
                           [kind |-> cls, value |-> escape_filter_chars(ref.s)]) }

\* The base of the lookups of a call.
LookupBase == IF IsNone(call.args.base) THEN config["AD_BASE_DN"].s ELSE call.args.base.s

\* The call binds: with the credentials given, or with the configured ones.
CanBind ==
    IF IsNone(call.args.credentials) THEN Has(config, "AD_BIND_USERNAME")
    ELSE call.args.credentials.d["password"] = Str(Pw)

\* The user with index u is among the users the transitive member search of
\* the group with index g, under the configured base, returns.
InTransitiveMembers(u, g) ==
    /\ UnderBase(server.objects[u].dn, config["AD_BASE_DN"].s)
    /\ LowerStr(server.objects[g].dn) \in ChainGroups(server, server.objects[u].dn)

\* C11 (as claimed): when the user and the group each resolve to one object,
\* user_is_member_of_group returns true iff the user's distinguished name is
\* among those the transitive member search of the group returns.
C11_MemberIffInTransitiveSearch ==
    ( /\ call.op = "user_is_member_of_group"
      /\ server.fault = NoFault
      /\ CanBind
      /\ Cardinality(Denoted(call.args.user, "user", LookupBase)) = 1
      /\ Cardinality(Denoted(call.args.group, "group", LookupBase)) = 1 ) =>
        LET u == CHOOSE i \in Denoted(call.args.user, "user", LookupBase) : TRUE
            g == CHOOSE i \in Denoted(call.args.group, "group", LookupBase) : TRUE
        IN  out = Return(Bool(InTransitiveMembers(u, g)))

============================================================================
